---- MODULE Spec2Model ----
(***************************************************************************)
(* A model of image_compress.py: the directory walker                      *)
(* ProcessBase.process_dir, the three processors CompressImage,            *)
(* RestoreBackupImage and DeleteBackupImage, and the dispatch in __main__, *)
(* over a file system of two directories.                                  *)
(*                                                                         *)
(* File names are sequences of one-character strings, so that lower(),     *)
(* endswith(), the backup prefix and the slice of RestoreBackupImage are   *)
(* computed character by character, as the code computes them.             *)
(***************************************************************************)
EXTENDS Integers, Sequences, FiniteSets, TLC

(***************************************************************************)
(* Bounds of the model.                                                    *)
(***************************************************************************)
\* the most files the tree holds when the program starts
MaxFiles == 2
\* file sizes, in abstract units, range over 1..MaxSize
MaxSize == 2
\* the most invocations of the program in a row (SpecRuns, SpecOrder)
MaxRuns == 2
\* the most failures the environment causes during one invocation: a failed
\* encode, move or remove, or a file removed by another process
MaxFailures == 1

(***************************************************************************)
(* Strings.                                                                *)
(***************************************************************************)
UpperCase == <<"A","B","C","D","E","F","G","H","I","J","K","L","M",
               "N","O","P","Q","R","S","T","U","V","W","X","Y","Z">>
LowerCase == <<"a","b","c","d","e","f","g","h","i","j","k","l","m",
               "n","o","p","q","r","s","t","u","v","w","x","y","z">>

\* str.lower() on one character
LowerChar(c) ==
    IF \E i \in 1..Len(UpperCase) : UpperCase[i] = c
    THEN LowerCase[CHOOSE i \in 1..Len(UpperCase) : UpperCase[i] = c]
    ELSE c

\* str.lower()
lower(s) == [i \in 1..Len(s) |-> LowerChar(s[i])]

\* str.endswith(suffix)
endswith(s, suffix) ==
    /\ Len(suffix) <= Len(s)
    /\ SubSeq(s, Len(s) - Len(suffix) + 1, Len(s)) = suffix

\* ProcessBase.backup_extension, 'compressimages-backup'
backup_extension ==
    <<"c","o","m","p","r","e","s","s","i","m","a","g","e","s",
      "-","b","a","c","k","u","p">>

jpg == <<"j","p","g">>
jpeg == <<"j","p","e","g">>
png == <<"p","n","g">>

Modes == {"compress", "restorebackup", "deletebackup"}

\* self.extensions of the processor constructed for a mode
extensions(m) ==
    IF m = "compress" THEN <<jpg, jpeg, png>> ELSE <<backup_extension>>

\* the extension check without lower()
matches_cased(exts, file) ==
    \E i \in 1..Len(exts) : endswith(file, <<".">> \o exts[i])

\* the extension check of process_dir: some ext of the list with
\* lowercase_file.endswith('.' + ext)
matches(exts, file) ==
    \E i \in 1..Len(exts) : endswith(lower(file), <<".">> \o exts[i])

(***************************************************************************)
(* The file system.  A path is a directory and a base name; the tree has   *)
(* the directory the program is started on and one directory inside it.    *)
(* No operation of the program creates, removes or renames a directory.    *)
(***************************************************************************)
\* the directory given on the command line
Root == "root"
\* the directory inside Root, and its name there
Sub == "sub"
SubName == <<"s">>

\* os.path.join(root, file)
join(d, file) == [dir |-> d, name |-> file]
\* os.path.basename, os.path.dirname
basename(p) == p.name
dirname(p) == p.dir

\* os.path.isdir: Root/s is a directory, and so is a path with an empty base
\* name ("root/")
isdir(p) == p.name = <<>> \/ (p.dir = Root /\ p.name = SubName)
\* the directory such a path names
DirAt(p) == IF p.name = <<>> THEN p.dir ELSE Sub

\* the directories os.walk finds inside a directory
SubDirs(d) == IF d = Root THEN <<Sub>> ELSE <<>>

Formats == {"JPEG", "PNG", "GIF", "none"}

\* what a truncated or failed write leaves behind
PartialFile == [fmt |-> "none", size |-> 0, writable |-> TRUE]

\* os.rename of a file onto a path that is no directory
Rename(f, src, dst) ==
    [q \in (DOMAIN f \ {src}) \cup {dst} |-> IF q = dst THEN f[src] ELSE f[q]]

\* shutil.move(src, dst): into dst when dst is a directory (an error when the
\* name is taken there), else a rename that replaces dst
shutil_move(f, src, dst) ==
    LET real_dst == IF isdir(dst) THEN join(DirAt(dst), basename(src)) ELSE dst
    IN  IF isdir(dst) /\ real_dst \in DOMAIN f
        THEN [ok |-> FALSE, err |-> "Error", fs |-> f]
        ELSE IF src \notin DOMAIN f
        THEN [ok |-> FALSE, err |-> "FileNotFoundError", fs |-> f]
        ELSE [ok |-> TRUE, err |-> "none", fs |-> Rename(f, src, real_dst)]

\* os.remove(p)
os_remove(f, p) ==
    IF p \notin DOMAIN f
    THEN [ok |-> FALSE, err |-> "FileNotFoundError", fs |-> f]
    ELSE [ok |-> TRUE, err |-> "none", fs |-> [q \in DOMAIN f \ {p} |-> f[q]]]

\* os.path.splitext(name)[1]: from the last dot, unless only dots precede it
splitext(s) ==
    LET dots == {i \in 1..Len(s) : s[i] = "."}
        last == IF dots = {} THEN 0 ELSE CHOOSE i \in dots : \A j \in dots : j <= i
    IN  IF last = 0 \/ \A j \in 1..(last - 1) : s[j] = "."
        THEN <<>>
        ELSE SubSeq(s, last, Len(s))

\* the format Image.save picks from the extension of the path it writes
SaveFormat(file) ==
    LET e == lower(splitext(file))
    IN  IF e \in {<<".">> \o jpg, <<".">> \o jpeg} THEN "JPEG"
        ELSE IF e = <<".">> \o png THEN "PNG"
        ELSE "unknown"

\* output_path of CompressImage.process_file
BackupPath(p) ==
    join(dirname(p), (backup_extension \o <<"-">>) \o basename(p))

\* filename[: -(len(self.backup_extension) + 1)] of RestoreBackupImage; a
\* name that matched holds at least that many characters, so the slice stays
\* inside the base name
RestorePath(p) ==
    join(dirname(p), SubSeq(basename(p), 1, Len(basename(p)) - (Len(backup_extension) + 1)))

(***************************************************************************)
(* The trees the program is started on.                                    *)
(***************************************************************************)
a_jpg == <<"a", ".">> \o jpg
b_PNG == <<"b", ".", "P", "N", "G">>
c_txt == <<"c", ".", "t", "x", "t">>
d_jpeg == <<"d", ".">> \o jpeg
a_bak == (<<"a", ".">>) \o backup_extension
a_bak_bak == (a_bak \o <<".">>) \o backup_extension
s_bak == (SubName \o <<".">>) \o backup_extension

\* In compress mode the tree holds images, a file left by an earlier compress
\* run and a text file; in the two backup modes it holds files that carry the
\* backup extension, one of them twice, and a text file.  A file whose name
\* the mode does not match is to the walker what the text file is.
InitPaths(m) ==
    IF m = "compress"
    THEN {join(Root, n) : n \in {a_jpg, basename(BackupPath(join(Root, a_jpg))),
                                 b_PNG, c_txt}}
         \cup {join(Sub, d_jpeg)}
    ELSE {join(Root, n) : n \in {a_bak, a_bak_bak, s_bak, c_txt}}
         \cup {join(Sub, s_bak)}

\* The files.  In compress mode: a JPEG image, a PNG image, a read-only
\* image, an image of an unsupported format and a file that is no image, all
\* of the largest size, so that the codec decides whether the copy is
\* smaller.  In the backup modes, which never read a file, files of every
\* size.
InitFiles(m) ==
    IF m = "compress"
    THEN {[fmt |-> "JPEG", size |-> MaxSize, writable |-> TRUE],
          [fmt |-> "PNG", size |-> MaxSize, writable |-> TRUE],
          [fmt |-> "JPEG", size |-> MaxSize, writable |-> FALSE],
          [fmt |-> "GIF", size |-> MaxSize, writable |-> TRUE],
          [fmt |-> "none", size |-> MaxSize, writable |-> TRUE]}
    ELSE [fmt : {"JPEG"}, size : 1..MaxSize, writable : {TRUE}]

InitTrees(m) ==
    UNION {[S -> InitFiles(m)] :
             S \in {T \in SUBSET InitPaths(m) : Cardinality(T) <= MaxFiles}}

(***************************************************************************)
(* The state.                                                              *)
(***************************************************************************)
VARIABLES
    mode,         \* args.mode, which chose the processor
    kind,         \* "dir" or "file": the branch __main__ took; "none" before
    pc,           \* where the program is
    fs,           \* the file system: the paths that hold a file, and the file
    todo,         \* os.walk: the directories still to list
    curdir,       \* os.walk: root, the directory whose files are being looped
    pending,      \* os.walk: the names of files not yet reached by the loop
    cur,          \* the argument of the process_file call in progress
    output_path,  \* CompressImage.process_file: output_path
    handle,       \* CompressImage.process_file: the read handle is open
    ret,          \* what the last process_file call returned
    exc,          \* the exception the current call raised: the statement and
                  \*   the type, NoExc if none
    file_count,   \* process_dir: file_count
    enc,          \* the codec: the size it has given each input it has encoded
    faulty,       \* the environment may fail an encode, a move or a remove
    calls,        \* history: the process_file calls of this run, per path
    trues,        \* history: how many of them returned True
    pre,          \* history: the file system when the current call began
    listed,       \* history: the files os.walk found when it listed a directory
    seen,         \* history: every path that held a file at some time of the run
    wrote,        \* history: the current call completed Image.save
    after,        \* history: "clean", "raised" once a call of this run has
                  \*   raised, "resumed" once another call began after that
    run,          \* the number of this invocation of the program
    fs0,          \* history: the file system when this invocation began
    out1,         \* history: what the first invocation left (SpecOrder)
    written,      \* history: the backups this invocation made: the path
                  \*   Image.save wrote, and the file it was made from
    earlier,      \* history: the backups earlier invocations made
    history,      \* history: the mode and kind of each earlier invocation
    failures      \* how many failures the environment has caused in this run

vars == <<mode, kind, pc, fs, todo, curdir, pending, cur, output_path, handle,
          ret, exc, file_count, enc, faulty, calls, trues, pre, listed, seen,
          wrote, after, run, fs0, out1, written, earlier, history,
          failures>>

past == <<earlier, history, failures>>

NoPath == join(Root, <<>>)
NoCalls == [p \in {} |-> 0]
NoExc == [at |-> "none", type |-> "none"]

\* the state when an invocation of the program begins, the processor built
Begin(m, tree, f) ==
    /\ mode = m
    /\ kind = "none"
    /\ pc = "main"
    /\ fs = tree
    /\ todo = <<>>
    /\ curdir = Root
    /\ pending = {}
    /\ cur = NoPath
    /\ output_path = NoPath
    /\ handle = FALSE
    /\ ret = FALSE
    /\ exc = NoExc
    /\ file_count = 0
    /\ enc = [k \in {} |-> 0]
    /\ faulty = f
    /\ calls = NoCalls
    /\ trues = 0
    /\ pre = tree
    /\ listed = {}
    /\ seen = DOMAIN tree
    /\ wrote = FALSE
    /\ after = "clean"
    /\ run = 1
    /\ fs0 = tree
    /\ out1 = [fs |-> tree, count |-> 0]
    /\ written = {}
    /\ earlier = {}
    /\ history = <<>>
    /\ failures = 0

Init == \E m \in Modes : \E tree \in InitTrees(m) : Begin(m, tree, TRUE)

(***************************************************************************)
(* Exceptions.                                                             *)
(***************************************************************************)
\* the statements of each process_file that lie inside a try block whose
\* handler catches Exception
TryPoints(m) ==
    IF m = "compress" THEN {"stat", "open", "decode", "save", "getsize"}
    ELSE IF m = "restorebackup" THEN {"move"}
    ELSE {"remove"}

\* the try blocks without the write, the move and the remove
InTry_narrow(m, point) == point \in TryPoints(m) \ {"save", "move", "remove"}

InTry(m, point) == point \in TryPoints(m)

\* whether the environment may fail the call at hand
Faults == IF faulty /\ failures < MaxFailures THEN BOOLEAN ELSE {FALSE}

\* process_file returns r
Finish(r) ==
    /\ pc' = "ret"
    /\ ret' = r
    /\ trues' = IF r THEN trues + 1 ELSE trues

\* a statement of process_file raises: the handler of the enclosing try logs
\* and the call returns False; outside any try the exception leaves the call
Throw(point, type) ==
    /\ exc' = [at |-> point, type |-> type]
    /\ IF InTry(mode, point)
       THEN Finish(FALSE)
       ELSE pc' = "crash" /\ UNCHANGED <<ret, trues>>

\* a handle that leaving the block does not close
WithExit_leak(h) == h

\* the handle of `with open(...) as file` once control leaves the block
WithExit(h) == FALSE

\* process_file(p) is entered
Call(p) ==
    /\ cur' = p
    /\ pc' = "call"
    /\ calls' = [q \in DOMAIN calls \cup {p} |->
                   IF q = p THEN (IF p \in DOMAIN calls THEN calls[p] + 1 ELSE 1)
                   ELSE calls[q]]
    /\ pre' = fs
    /\ exc' = NoExc
    /\ wrote' = FALSE
    /\ output_path' = NoPath
    /\ after' = IF after = "raised" THEN "resumed" ELSE after

(***************************************************************************)
(* __main__ and ProcessBase.process_dir.                                   *)
(***************************************************************************)
\* isdir(args.path): processor.process_dir(args.path) begins
MainDir ==
    /\ pc = "main"
    /\ kind' = "dir"
    /\ todo' = <<Root>>
    /\ pc' = "walk"
    /\ UNCHANGED <<past, mode, fs, curdir, pending, cur, output_path, handle, ret, exc,
                   file_count, enc, faulty, calls, trues, pre, listed, seen,
                   wrote, after, run, fs0, out1, written>>

\* isfile(args.path): a usage error in the two backup modes, else one
\* process_file call on the file, whatever its name
MainFile ==
    /\ pc = "main"
    /\ \E p \in DOMAIN fs :
         /\ kind' = "file"
         /\ IF mode # "compress"
            THEN /\ pc' = "exit1"
                 /\ UNCHANGED <<cur, calls, pre, exc, wrote, output_path, after>>
            ELSE Call(p)
    /\ UNCHANGED <<past, mode, fs, todo, curdir, pending, handle, ret, file_count, enc,
                   faulty, trues, listed, seen, run, fs0, out1, written>>

\* os.walk lists the next directory: its files as they are now, and its
\* directories, which it will list after the files have been looped over
WalkList ==
    /\ pc = "walk"
    /\ todo # <<>>
    /\ LET d == Head(todo)
           files == {basename(p) : p \in {q \in DOMAIN fs : dirname(q) = d}}
       IN  /\ curdir' = d
           /\ pending' = files
           /\ listed' = listed \cup {join(d, file) : file \in files}
           /\ todo' = SubDirs(d) \o Tail(todo)
    /\ pc' = "files"
    /\ UNCHANGED <<past, mode, kind, fs, cur, output_path, handle, ret, exc, file_count,
                   enc, faulty, calls, trues, pre, seen, wrote, after, run, fs0,
                   out1, written>>

\* one turn of `for file in files`, in whatever order the listing has: the
\* extension check, and the process_file call when it matches
WalkFile ==
    /\ pc = "files"
    /\ \E file \in pending :
         /\ pending' = pending \ {file}
         /\ IF matches(extensions(mode), file)
            THEN Call(join(curdir, file))
            ELSE UNCHANGED <<pc, cur, calls, pre, exc, wrote, output_path, after>>
    /\ UNCHANGED <<past, mode, kind, fs, todo, curdir, handle, ret, file_count, enc,
                   faulty, trues, listed, seen, run, fs0, out1, written>>

\* a count of the calls, whatever they returned
Counted_all(count, result) == count + 1

\* file_count after a call that returned result
Counted(count, result) == IF result THEN count + 1 ELSE count

\* `if self.process_file(full_path): file_count = file_count + 1`
WalkReturn ==
    /\ pc = "ret"
    /\ kind = "dir"
    /\ file_count' = Counted(file_count, ret)
    /\ after' = IF exc # NoExc /\ after = "clean" THEN "raised" ELSE after
    /\ pc' = "files"
    /\ UNCHANGED <<past, mode, kind, fs, todo, curdir, pending, cur, output_path, handle,
                   ret, exc, enc, faulty, calls, trues, pre, listed, seen, wrote,
                   run, fs0, out1, written>>

\* the files of a directory are done: os.walk goes on
WalkNextDir ==
    /\ pc = "files"
    /\ pending = {}
    /\ pc' = "walk"
    /\ UNCHANGED <<past, mode, kind, fs, todo, curdir, pending, cur, output_path, handle,
                   ret, exc, file_count, enc, faulty, calls, trues, pre, listed,
                   seen, wrote, after, run, fs0, out1, written>>

\* no directory is left: process_dir returns file_count, which is printed
WalkDone ==
    /\ pc = "walk"
    /\ todo = <<>>
    /\ pc' = "done"
    /\ UNCHANGED <<past, mode, kind, fs, todo, curdir, pending, cur, output_path, handle,
                   ret, exc, file_count, enc, faulty, calls, trues, pre, listed,
                   seen, wrote, after, run, fs0, out1, written>>

\* the single-file call is back: its result is dropped and the program ends
MainReturn ==
    /\ pc = "ret"
    /\ kind = "file"
    /\ pc' = "done"
    /\ UNCHANGED <<past, mode, kind, fs, todo, curdir, pending, cur, output_path, handle,
                   ret, exc, file_count, enc, faulty, calls, trues, pre, listed,
                   seen, wrote, after, run, fs0, out1, written>>

(***************************************************************************)
(* CompressImage.process_file, statement by statement.                     *)
(***************************************************************************)
\* the size test with > for >=
CannotCompress_strict(out_size, org_size) == out_size > org_size

\* the size test: `if out_size >= org_size` reports "cannot further compress"
CannotCompress(out_size, org_size) == out_size >= org_size

\* no read-only test
ReadOnly_never(file) == FALSE

\* the read-only test: `not stat(src_full_path)[0] & S_IWRITE`
ReadOnly(file) == ~file.writable

\* the first try block: the read-only test and the backup path
CompressStat ==
    /\ pc = "call"
    /\ mode = "compress"
    /\ IF cur \notin DOMAIN fs
       THEN /\ Throw("stat", "FileNotFoundError")
            /\ UNCHANGED output_path
       ELSE IF ReadOnly(fs[cur])
       THEN /\ Finish(FALSE)
            /\ UNCHANGED <<exc, output_path>>
       ELSE /\ output_path' = BackupPath(cur)
            /\ pc' = "open"
            /\ UNCHANGED <<ret, trues, exc>>
    /\ UNCHANGED <<past, mode, kind, fs, todo, curdir, pending, cur, handle, file_count,
                   enc, faulty, calls, pre, listed, seen, wrote, after, run, fs0,
                   out1, written>>

\* `with open(src_full_path, 'rb') as file`
CompressOpen ==
    /\ pc = "open"
    /\ handle' = TRUE
    /\ pc' = "decode"
    /\ UNCHANGED <<past, mode, kind, fs, todo, curdir, pending, cur, output_path, ret,
                   exc, file_count, enc, faulty, calls, trues, pre, listed, seen,
                   wrote, after, run, fs0, out1, written>>

\* Image.open(file) and the format test
CompressDecode ==
    /\ pc = "decode"
    /\ IF fs[cur].fmt = "none"
       THEN /\ Throw("decode", "UnidentifiedImageError")
            /\ handle' = WithExit(handle)
       ELSE IF fs[cur].fmt # "PNG" /\ fs[cur].fmt # "JPEG"
       THEN /\ Finish(FALSE)
            /\ handle' = WithExit(handle)
            /\ UNCHANGED exc
       ELSE /\ pc' = "save"
            /\ UNCHANGED <<handle, ret, trues, exc>>
    /\ UNCHANGED <<past, mode, kind, fs, todo, curdir, pending, cur, output_path,
                   file_count, enc, faulty, calls, pre, listed, seen, wrote,
                   after, run, fs0, out1, written>>

\* img.save(output_path, quality=..., optimize=True), the last statement of
\* the with block.  The format comes from the extension of output_path; the
\* codec gives one size to one input; a failed write leaves nothing or a
\* truncated file.
CompressSave ==
    /\ pc = "save"
    /\ \E fault \in Faults, partial \in BOOLEAN, sz \in 1..MaxSize :
         /\ LET fmt == SaveFormat(basename(output_path))
                key == <<fs[cur].fmt, fs[cur].size, fmt>>
                put(file) == [q \in DOMAIN fs \cup {output_path} |->
                                IF q = output_path THEN file ELSE fs[q]]
            IN  IF fmt = "unknown"
                   \/ (output_path \in DOMAIN fs /\ ReadOnly(fs[output_path]))
                THEN /\ ~fault /\ ~partial /\ sz = 1
                     /\ Throw("save", IF fmt = "unknown" THEN "ValueError"
                                       ELSE "PermissionError")
                     /\ UNCHANGED <<fs, enc, wrote, written>>
                ELSE IF fault
                THEN /\ sz = 1
                     /\ Throw("save", "OSError")
                     /\ fs' = IF partial THEN put(PartialFile) ELSE fs
                     /\ UNCHANGED <<enc, wrote, written>>
                ELSE /\ ~partial
                     /\ key \in DOMAIN enc => sz = enc[key]
                     /\ enc' = [k \in DOMAIN enc \cup {key} |->
                                  IF k = key THEN sz ELSE enc[k]]
                     /\ fs' = put([fmt |-> fmt, size |-> sz, writable |-> TRUE])
                     /\ wrote' = TRUE
                     /\ written' =
                          written \cup {[backup |-> output_path, original |-> cur]}
                     /\ pc' = "sizes"
                     /\ UNCHANGED <<ret, trues, exc>>
         /\ failures' = IF fault THEN failures + 1 ELSE failures
    /\ handle' = WithExit(handle)
    /\ seen' = seen \cup DOMAIN fs'
    /\ UNCHANGED <<earlier, history, mode, kind, todo, curdir, pending, cur,
                   output_path, file_count, faulty, calls, pre, listed, after,
                   run, fs0, out1>>

\* the two getsize calls and the comparison
CompressSizes ==
    /\ pc = "sizes"
    /\ IF cur \notin DOMAIN fs \/ output_path \notin DOMAIN fs
       THEN Throw("getsize", "FileNotFoundError")
       ELSE /\ Finish(~CannotCompress(fs[output_path].size, fs[cur].size))
            /\ UNCHANGED exc
    /\ UNCHANGED <<past, mode, kind, fs, todo, curdir, pending, cur, output_path, handle,
                   file_count, enc, faulty, calls, pre, listed, seen, wrote, after,
                   run, fs0, out1, written>>

(***************************************************************************)
(* RestoreBackupImage.process_file and DeleteBackupImage.process_file.     *)
(***************************************************************************)
Restore ==
    /\ pc = "call"
    /\ mode = "restorebackup"
    /\ \E fault \in Faults :
         /\ LET r == shutil_move(fs, cur, RestorePath(cur))
            IN  IF fault \/ ~r.ok
                THEN /\ Throw("move", IF r.ok THEN "OSError" ELSE r.err)
                     /\ UNCHANGED fs
                ELSE /\ fs' = r.fs
                     /\ Finish(TRUE)
                     /\ UNCHANGED exc
         /\ failures' = IF fault THEN failures + 1 ELSE failures
    /\ seen' = seen \cup DOMAIN fs'
    /\ UNCHANGED <<earlier, history, mode, kind, todo, curdir, pending, cur,
                   output_path, handle, file_count, enc, faulty, calls, pre,
                   listed, wrote, after, run, fs0, out1, written>>

Delete ==
    /\ pc = "call"
    /\ mode = "deletebackup"
    /\ \E fault \in Faults :
         /\ LET r == os_remove(fs, cur)
            IN  IF fault \/ ~r.ok
                THEN /\ Throw("remove", IF r.ok THEN "OSError" ELSE r.err)
                     /\ UNCHANGED fs
                ELSE /\ fs' = r.fs
                     /\ Finish(TRUE)
                     /\ UNCHANGED exc
         /\ failures' = IF fault THEN failures + 1 ELSE failures
    /\ UNCHANGED <<earlier, history, mode, kind, todo, curdir, pending, cur,
                   output_path, handle, file_count, enc, faulty, calls, pre,
                   listed, seen, wrote, after, run, fs0, out1, written>>

Program ==
    \/ MainDir
    \/ MainFile
    \/ WalkList
    \/ WalkFile
    \/ WalkReturn
    \/ WalkNextDir
    \/ WalkDone
    \/ MainReturn
    \/ CompressStat
    \/ CompressOpen
    \/ CompressDecode
    \/ CompressSave
    \/ CompressSizes
    \/ Restore
    \/ Delete


(***************************************************************************)
(* Several invocations of the program.                                     *)
(***************************************************************************)
\* the program has ended and is started again, in mode m, on the tree `tree`
Restart(m, tree) ==
    /\ mode' = m
    /\ kind' = "none"
    /\ pc' = "main"
    /\ fs' = tree
    /\ todo' = <<>>
    /\ curdir' = Root
    /\ pending' = {}
    /\ cur' = NoPath
    /\ output_path' = NoPath
    /\ handle' = FALSE
    /\ ret' = FALSE
    /\ exc' = NoExc
    /\ file_count' = 0
    /\ calls' = NoCalls
    /\ trues' = 0
    /\ pre' = tree
    /\ listed' = {}
    /\ seen' = DOMAIN tree
    /\ wrote' = FALSE
    /\ after' = "clean"
    /\ run' = run + 1
    /\ fs0' = tree
    /\ written' = {}
    /\ earlier' = earlier \cup written
    /\ history' = Append(history, [mode |-> mode, kind |-> kind])
    /\ failures' = 0
    /\ UNCHANGED <<enc, faulty>>

\* a later invocation, in any mode, on the tree the last one left
Reinvoke ==
    /\ pc \in {"done", "exit1"}
    /\ run < MaxRuns
    /\ \E m \in Modes : Restart(m, fs)
    /\ UNCHANGED out1

\* Another process removes the file after os.walk has listed it and before
\* the first statement of the process_file call on it.
EnvRemove ==
    /\ pc = "call"
    /\ faulty
    /\ failures < MaxFailures
    /\ cur \in DOMAIN fs
    /\ fs' = os_remove(fs, cur).fs
    /\ pre' = fs'
    /\ failures' = failures + 1
    /\ UNCHANGED <<mode, kind, pc, todo, curdir, pending, cur, output_path, handle,
                   ret, exc, file_count, enc, faulty, calls, trues, listed, seen,
                   wrote, after, run, fs0, out1, written, earlier, history>>

\* the same invocation again on the tree as it was before, the result of the
\* first directory run kept for comparison
Rerun ==
    /\ pc = "done"
    /\ kind = "dir"
    /\ run < MaxRuns
    /\ Restart(mode, fs0)
    /\ out1' = IF run = 1 THEN [fs |-> fs, count |-> file_count] ELSE out1

Next == Program \/ EnvRemove

Spec == Init /\ [][Next]_vars

\* an environment in which no encode, move or remove fails and no other
\* process touches the tree
InitQuiet == \E m \in Modes : \E tree \in InitTrees(m) : Begin(m, tree, FALSE)

NextRuns == Program \/ Reinvoke

SpecRuns == InitQuiet /\ [][NextRuns]_vars

NextOrder == Program \/ Rerun

SpecOrder == InitQuiet /\ [][NextOrder]_vars

(***************************************************************************)
(* The properties.                                                         *)
(***************************************************************************)
\* the number of process_file calls of this run on path p
Calls(p) == IF p \in DOMAIN calls THEN calls[p] ELSE 0

\* the lower-cased name ends with '.' and one of the extensions of mode m
Eligible(m, name) ==
    \E i \in 1..Len(extensions(m)) :
        LET suffix == <<".">> \o extensions(m)[i]
            skip == Len(name) - Len(suffix)
        IN  /\ skip >= 0
            /\ \A k \in 1..Len(suffix) : LowerChar(name[skip + k]) = suffix[k]

\* the paths the run has had to do with
Known == listed \cup seen \cup DOMAIN calls

\* C1, as amended: during a process_dir run, process_file is invoked at most
\* once on a path, and only on a file that was in its directory when os.walk
\* listed that directory and whose lower-cased name ends with '.' and a
\* configured extension; when the run is over it has been invoked exactly
\* once on each of those.
C1_ListedOnce ==
    kind = "dir" =>
        \A p \in Known :
            /\ Calls(p) <= 1
            /\ Calls(p) = 1 => p \in listed /\ Eligible(mode, basename(p))
            /\ pc = "done" /\ p \in listed /\ Eligible(mode, basename(p))
                  => Calls(p) = 1

\* a run that is over, that changed the tree, called process_file and left
\* a listed file alone
C1_Witness ==
    /\ pc = "done"
    /\ kind = "dir"
    /\ fs # fs0
    /\ \E p \in listed : Calls(p) = 1
    /\ \E p \in listed : Calls(p) = 0

\* C1, as stated: when a process_dir run is over, process_file has been
\* invoked exactly once on every file that was in the tree during the run
\* and has a matching name, and never on another.
C1_EveryFileOnce ==
    pc = "done" /\ kind = "dir" =>
        \A p \in Known :
            Calls(p) = IF p \in seen /\ Eligible(mode, basename(p)) THEN 1 ELSE 0

\* C7: the count process_dir has so far, and the count it returns, is the
\* number of process_file calls of the run that returned True, in every
\* order of the files.
C7_CountIsTrues ==
    kind = "dir" /\ pc \in {"walk", "files", "call", "done"} => file_count = trues

\* a run that is over in which one call returned True and another did not
C7_Witness ==
    /\ pc = "done"
    /\ kind = "dir"
    /\ file_count = 1
    /\ Cardinality(DOMAIN calls) >= 2

C6_ReadOnly ==
    mode = "compress" /\ pc \in {"open", "decode", "save", "sizes", "ret"}
        /\ cur \in DOMAIN pre /\ ~pre[cur].writable
    => pc = "ret" /\ ~ret /\ fs = pre

\* a compress call on a read-only file has returned
C6_Witness ==
    /\ pc = "ret"
    /\ mode = "compress"
    /\ cur \in DOMAIN pre
    /\ ~pre[cur].writable

\* the path left when '.' and the backup extension, in whatever case, are
\* taken off the end of the name of p
Stripped(p) ==
    LET n == basename(p)
        k == CHOOSE i \in 0..Len(n) :
                 lower(SubSeq(n, i + 1, Len(n))) = <<".">> \o backup_extension
    IN  [dir |-> dirname(p), name |-> SubSeq(n, 1, k)]

\* C4: RestoreBackupImage.process_file(b) on an existing file b, when the
\* environment does not fail the move, returns True, leaves no file at b and
\* b's former file at the stripped path; when b does not exist it returns
\* False and changes nothing.
C4_MovesToStripped ==
    pc = "ret" /\ mode = "restorebackup" =>
        LET t == Stripped(cur)
        IN  /\ cur \notin DOMAIN pre => ~ret /\ fs = pre
            /\ cur \in DOMAIN pre /\ exc.type # "OSError" =>
                  /\ ret
                  /\ cur \notin DOMAIN fs
                  /\ t \in DOMAIN fs /\ fs[t] = pre[cur]

\* C5: no exception leaves a process_file call: every failure in it, and
\* every skip, makes it return False; so a process_dir run that is over has
\* called process_file on every matching file it listed, those after a
\* failed call included.
C5_NoEscape ==
    /\ pc # "crash"
    /\ pc = "ret" /\ exc # NoExc => ~ret
    /\ pc = "ret" /\ mode = "compress" /\ cur \in DOMAIN pre
          /\ (~pre[cur].writable \/ pre[cur].fmt \notin {"JPEG", "PNG"}) => ~ret
    /\ pc = "done" /\ kind = "dir" =>
          \A p \in listed : Eligible(mode, basename(p)) => Calls(p) = 1

\* a run that is over in which a call raised and a later call was made
C5_Witness ==
    /\ pc = "done"
    /\ kind = "dir"
    /\ after = "resumed"

\* C8, as amended: in CompressImage.process_file the read handle is open
\* from the open of the source file until Image.save has returned, the write
\* to the backup path included, and at no other time: it is closed before
\* the sizes are compared and on every way out of the call.
C8_HandleScope ==
    handle <=> pc \in {"decode", "save"}

\* the image is decoded, the write is about to begin, the handle is open
C8_Witness ==
    /\ pc = "save"
    /\ handle
    /\ fs[cur].fmt \in {"JPEG", "PNG"}

\* C8, as stated: the read handle is closed when the write to the backup
\* path begins, and on every way out of the call.
C8_ClosedBeforeWrite ==
    /\ pc = "save" => ~handle
    /\ pc \notin {"decode", "save"} => ~handle

\* C3: a backup that an earlier compress invocation made carries the backup
\* marker in the form the backup modes match: a later process_dir run in
\* restorebackup or deletebackup mode has, when it is over, called
\* process_file once on every such backup that was in the tree when it
\* began, and restore has moved it to the path of the file it was made from.
C3_BackupsAreRestorable ==
    pc = "done" /\ kind = "dir" /\ mode \in {"restorebackup", "deletebackup"} =>
        \A w \in earlier :
            w.backup \in DOMAIN fs0 =>
                /\ Eligible(mode, basename(w.backup))
                /\ Calls(w.backup) = 1
                /\ mode = "restorebackup" =>
                      /\ w.backup \notin DOMAIN fs
                      /\ w.original \in DOMAIN fs
                      /\ fs[w.original] = fs0[w.backup]

\* every invocation so far, this one included, is a compress run of
\* process_dir
OnlyCompressRuns ==
    /\ mode = "compress"
    /\ kind = "dir"
    /\ \A i \in 1..Len(history) :
           history[i].mode = "compress" /\ history[i].kind = "dir"

\* C9: a compress run of process_dir never calls process_file on a backup
\* that an earlier compress invocation wrote; so from the second of
\* repeated compress runs on, no run adds a file to the tree.
C9_NoBackupOfBackup ==
    /\ mode = "compress" /\ kind = "dir" /\ pc = "call" =>
          \A w \in earlier : cur # w.backup
    /\ OnlyCompressRuns /\ run > 1 => DOMAIN fs \subseteq DOMAIN fs0

\* C10: a process_dir run on the same tree in the same mode leaves the same
\* file system and returns the same count whatever the order of the files;
\* and a process_file call leaves alone every other file that the run
\* processes.
C10_OrderIndependent ==
    /\ run > 1 /\ pc = "done" /\ kind = "dir" =>
          fs = out1.fs /\ file_count = out1.count
    /\ pc = "ret" /\ kind = "dir" =>
          \A q \in listed \ {cur} :
              Eligible(mode, basename(q)) =>
                  /\ q \in DOMAIN pre <=> q \in DOMAIN fs
                  /\ q \in DOMAIN fs => fs[q] = pre[q]

====
